---- MODULE Spec2Model ----
(***************************************************************************)
(* A model of the SPH fluid simulator of src/src/main.rs: the particle     *)
(* store (position, velocity, density per particle), the SimConfig         *)
(* resource, the Startup system spawn_random_scene and the Update systems  *)
(* apply_pressure_force, update_density, update_position and               *)
(* resolve_collision, as registered by main.                               *)
(*                                                                         *)
(* f32 arithmetic is modelled in fixed point, every division truncating    *)
(* toward zero (so that negation commutes with it, as it does with f32     *)
(* rounding):                                                              *)
(*   lengths, positions          1/100 of a world unit                     *)
(*   velocities                  1/100 of a world unit per second          *)
(*   time.delta_seconds()        milliseconds                              *)
(*   densities, pressures, kernel values, slopes, forces, accelerations    *)
(*                               1/10000                                   *)
(*   unit direction vectors      1/1000                                    *)
(*   collision_damping, pressure_multiplier   1/100                        *)
(* Only finite values are modelled (no NaN, no infinity).                  *)
(*                                                                         *)
(* Left out: spawn_camera and draw_gizmos (they touch no particle and no   *)
(* SimConfig field), and apply_gravity and spawn_ordered_scene, which main *)
(* registers in no schedule.                                               *)
(***************************************************************************)
EXTENDS Integers, Sequences, FiniteSets, TLC

(***************************************************************************)
(* Fixed-point scales.                                                     *)
(***************************************************************************)
Q == 100 * 100          \* densities, pressures, slopes, forces
DirScale == 10 * 100    \* unit direction vectors
Centi == 10 * 10        \* lengths, damping, multiplier
Milli == 10 * 100       \* milliseconds per second

(***************************************************************************)
(* Program constants.                                                      *)
(***************************************************************************)
PARTICLE_SIZE == 10     \* 0.1
MASS == 1
WINDOW_WIDTH == 1920
WINDOW_HEIGHT == 1080
PI_MILLI == 3142        \* std::f32::consts::PI
DIR_EPSILON == 1        \* 0.0001, in 1/10000 of a world unit
SEED_DENSITY == 10000   \* Density(1.) of spawn_random_scene

(***************************************************************************)
(* f32 helpers.                                                            *)
(***************************************************************************)
Abs(a) == IF a < 0 THEN -a ELSE a

\* f32::signum: 1.0 for positive numbers and +0.0, -1.0 for negative ones.
Signum(a) == IF a < 0 THEN -1 ELSE 1

Max(a, b) == IF a >= b THEN a ELSE b

\* a / b for b > 0, truncating toward zero.
FDiv(a, b) == IF a < 0 THEN -((-a) \div b) ELSE a \div b

RECURSIVE SqrtIter(_, _)
SqrtIter(n, x) ==
    LET y == (x + n \div x) \div 2
    IN  IF y >= x THEN x ELSE SqrtIter(n, y)

\* f32::sqrt, rounded down to the length unit.
Sqrt(n) == IF n <= 0 THEN 0 ELSE SqrtIter(n, n)

Vec2(a, b) == [x |-> a, y |-> b]
VecZero == Vec2(0, 0)
VecSub(a, b) == Vec2(a.x - b.x, a.y - b.y)
VecAdd(a, b) == Vec2(a.x + b.x, a.y + b.y)

\* Vec2::length
Length(v) == Sqrt(v.x * v.x + v.y * v.y)

\* radius.powf(8.), in 1/10000
Pow8(radius) ==
    LET r2 == radius * radius
        r4 == (r2 * r2) \div Q
    IN  (r4 * r4) \div Q

(***************************************************************************)
(* Kernel math.                                                            *)
(***************************************************************************)
smoothing_kernel(radius, dst) ==
    LET volume == (PI_MILLI * Pow8(radius)) \div (4 * Milli)
        v == Max(radius - dst, 0)
    IN  (v * v * v * Centi) \div volume

\* smoothing_kernel_derivative with the factor dst dropped from scale * dst * f * f
smoothing_kernel_derivative_without_dst(radius, dst) ==
    IF dst >= radius
    THEN 0
    ELSE LET f == radius * radius - dst * dst
             piR8 == (PI_MILLI * Pow8(radius)) \div Milli
             scale == -((24 * 10000000) \div piR8)
         IN  FDiv(scale * ((f * f) \div Q), Milli)

smoothing_kernel_derivative(radius, dst) ==
    IF dst >= radius
    THEN 0
    ELSE LET f == radius * radius - dst * dst
             piR8 == (PI_MILLI * Pow8(radius)) \div Milli
             scale == -((24 * 10000000) \div piR8)      \* in 1/1000
         IN  FDiv(scale * ((dst * ((f * f) \div Q)) \div Centi), Milli)

convert_density_to_pressure(density, target_density, pressure_multiplier) ==
    FDiv((density - target_density) * pressure_multiplier, Centi)

(***************************************************************************)
(* Bounds of the model.                                                    *)
(***************************************************************************)
NumParticles == 2       \* particles_num is drawn from 1..NumParticles
MaxFrames == 1          \* frames (ticks) explored
MaxEdits == 1           \* inspector edits explored

\* time.delta_seconds() of a frame, in milliseconds: a 60 Hz frame and a
\* stalled one
DtValues == {16, 1000}

(***************************************************************************)
(* State.                                                                  *)
(*   pos, vel, dens   Transform.translation.xy(), Velocity and Density of  *)
(*                    each WaterAtom entity, in query iteration order      *)
(*   cfg              the SimConfig resource                               *)
(*   dt               Time's delta of the frame in progress                *)
(*   ran              the Update systems that have run in this frame       *)
(*   last             the system that ran most recently                    *)
(*   frame, edits     counters of frames begun and inspector edits made    *)
(*   pre              history: pos, vel, dens before the last system ran   *)
(*   start            history: pos, vel, dens when the frame in progress   *)
(*                    began                                                *)
(*   estimated        history: update_density has written dens             *)
(***************************************************************************)
VARIABLES pos, vel, dens, cfg, dt, ran, last, frame, edits, pre, start, estimated

vars == <<pos, vel, dens, cfg, dt, ran, last, frame, edits, pre, start, estimated>>

Systems == {"apply_pressure_force", "update_density", "update_position", "resolve_collision"}

\* SimConfig::default(); gravity and particles_spacing are read by no
\* registered system.
DefaultConfig(n) ==
    [collision_damping |-> 70,
     smoothing_radius |-> 130,
     bounds_size |-> Vec2((WINDOW_WIDTH * 8) \div 10, (WINDOW_HEIGHT * 8) \div 10),
     particles_num |-> n,
     target_density |-> 27500,
     pressure_multiplier |-> 50]

Particles(c) == 1 .. c.particles_num

(***************************************************************************)
(* update_density: every density is computed from one snapshot of the      *)
(* positions, then all are written.                                        *)
(***************************************************************************)
RECURSIVE DensityAt(_, _, _, _)
DensityAt(particles_position, positions, radius, j) ==
    IF j = 0
    THEN 0
    ELSE DensityAt(particles_position, positions, radius, j - 1)
         + MASS * smoothing_kernel(radius, Length(VecSub(positions[j], particles_position)))

update_density(positions, sim_config) ==
    [i \in DOMAIN positions |->
        DensityAt(positions[i], positions, sim_config.smoothing_radius, Len(positions))]

(***************************************************************************)
(* calculate_pressure_force / apply_pressure_force                         *)
(***************************************************************************)
PressureTerm(sample_point, position, density, sim_config) ==
    LET d == VecSub(position, sample_point)
        dst == Length(d)
        dir == IF dst * Centi <= DIR_EPSILON
               THEN Vec2(DirScale, 0)
               ELSE Vec2(FDiv(d.x * DirScale, dst), FDiv(d.y * DirScale, dst))
        slope == smoothing_kernel_derivative(sim_config.smoothing_radius, dst)
        pressure == -convert_density_to_pressure(density, sim_config.target_density,
                                                 sim_config.pressure_multiplier)
        term(c) == FDiv(FDiv(FDiv(pressure * c, DirScale) * slope, Q) * MASS * Q, density)
    IN  Vec2(term(dir.x), term(dir.y))

RECURSIVE ForceUpTo(_, _, _, _, _)
ForceUpTo(sample_point, positions, densities, sim_config, i) ==
    IF i = 0
    THEN VecZero
    ELSE VecAdd(ForceUpTo(sample_point, positions, densities, sim_config, i - 1),
                PressureTerm(sample_point, positions[i], densities[i], sim_config))

calculate_pressure_force(sample_point, positions, densities, sim_config) ==
    ForceUpTo(sample_point, positions, densities, sim_config, Len(positions))

\* the pressure acceleration of particle i
PressureAcceleration(positions, densities, sim_config, i) ==
    LET pressure_force == calculate_pressure_force(positions[i], positions, densities, sim_config)
    IN  Vec2(FDiv(pressure_force.x * Q, densities[i]), FDiv(pressure_force.y * Q, densities[i]))

\* acceleration (1/10000 per s^2) times milliseconds, in 1/100 per second
TimesDelta(a, delta) == FDiv(a * delta, Milli * Centi)

apply_pressure_force(positions, velocities, densities, sim_config, delta) ==
    [i \in DOMAIN velocities |->
        LET a == PressureAcceleration(positions, densities, sim_config, i)
        IN  Vec2(velocities[i].x + TimesDelta(a.x, delta),
                 velocities[i].y + TimesDelta(a.y, delta))]

(***************************************************************************)
(* update_position                                                         *)
(***************************************************************************)
update_position(positions, velocities, delta) ==
    [i \in DOMAIN positions |->
        Vec2(positions[i].x + FDiv(velocities[i].x * delta, Milli),
             positions[i].y + FDiv(velocities[i].y * delta, Milli))]

(***************************************************************************)
(* resolve_collision                                                       *)
(***************************************************************************)
HalfBoundsSize(sim_config) ==
    Vec2(FDiv(sim_config.bounds_size.x, 2) - PARTICLE_SIZE,
         FDiv(sim_config.bounds_size.y, 2) - PARTICLE_SIZE)

\* the wall test with .abs() dropped
HitsWithoutAbs(coord, half) == coord > half

Hits(coord, half) == Abs(coord) > half

ClampCoord(coord, half) == IF Hits(coord, half) THEN half * Signum(coord) ELSE coord

\* the rebound with collision_damping dropped
ReboundUndamped(coord, half, v, damping) ==
    IF Abs(coord) > half THEN -v ELSE v

Rebound(coord, half, v, damping) ==
    IF Hits(coord, half) THEN FDiv(v * (-1 * damping), Centi) ELSE v

resolve_collision(positions, velocities, sim_config) ==
    LET half_bounds_size == HalfBoundsSize(sim_config)
    IN  [pos |-> [i \in DOMAIN positions |->
                    Vec2(ClampCoord(positions[i].x, half_bounds_size.x),
                         ClampCoord(positions[i].y, half_bounds_size.y))],
         vel |-> [i \in DOMAIN velocities |->
                    Vec2(Rebound(positions[i].x, half_bounds_size.x, velocities[i].x,
                                 sim_config.collision_damping),
                         Rebound(positions[i].y, half_bounds_size.y, velocities[i].y,
                                 sim_config.collision_damping))]]

(***************************************************************************)
(* spawn_random_scene: the Startup system main registers.  gen_range draws *)
(* each coordinate from the half-open range -half..half; the model draws   *)
(* it from the candidates below that lie in that range.                    *)
(***************************************************************************)
SpawnCandidates == {Vec2(-763, -425), Vec2(700, 400), Vec2(760, 425)}

SpawnPoints(sim_config) ==
    LET half_width == FDiv(sim_config.bounds_size.x - PARTICLE_SIZE, 2)
        half_height == FDiv(sim_config.bounds_size.y - PARTICLE_SIZE, 2)
    IN  {p \in SpawnCandidates : /\ -half_width <= p.x /\ p.x < half_width
                                 /\ -half_height <= p.y /\ p.y < half_height}

\* spawn_random_scene seeding Density(0.), as spawn_ordered_scene does
spawn_random_scene_density_zero(sim_config) ==
    {[pos |-> p,
      vel |-> [i \in Particles(sim_config) |-> VecZero],
      dens |-> [i \in Particles(sim_config) |-> 0]] :
        p \in [Particles(sim_config) -> SpawnPoints(sim_config)]}

spawn_random_scene(sim_config) ==
    {[pos |-> p,
      vel |-> [i \in Particles(sim_config) |-> VecZero],
      dens |-> [i \in Particles(sim_config) |-> SEED_DENSITY]] :
        p \in [Particles(sim_config) -> SpawnPoints(sim_config)]}

Snapshot == [pos |-> pos, vel |-> vel, dens |-> dens]

Init ==
    \E n \in 1 .. NumParticles :
        /\ cfg = DefaultConfig(n)
        /\ \E s \in spawn_random_scene(cfg) :
              /\ pos = s.pos
              /\ vel = s.vel
              /\ dens = s.dens
              /\ pre = s
              /\ start = s
        /\ dt = 0
        /\ ran = Systems
        /\ last = "spawn_random_scene"
        /\ frame = 0
        /\ edits = 0
        /\ estimated = FALSE

(***************************************************************************)
(* A frame: Time is updated, then the scheduler runs every system of the   *)
(* Update schedule once.  main adds the systems as a plain tuple, with no  *)
(* ordering constraint between them (no .chain(), .before() or .after()),  *)
(* so the scheduler is free to pick any order; systems whose data access   *)
(* conflicts never overlap, so each runs as one step.                      *)
(***************************************************************************)
BeginFrame ==
    /\ ran = Systems
    /\ frame < MaxFrames
    /\ frame' = frame + 1
    /\ dt' \in DtValues
    /\ ran' = {}
    /\ start' = Snapshot
    /\ last' = "begin_frame"
    /\ pre' = Snapshot
    /\ UNCHANGED <<pos, vel, dens, cfg, edits, estimated>>

Ran(system) ==
    /\ system \notin ran
    /\ ran' = ran \cup {system}
    /\ last' = system
    /\ pre' = Snapshot
    /\ UNCHANGED <<cfg, dt, frame, edits, start>>

ApplyPressureForce ==
    /\ Ran("apply_pressure_force")
    /\ vel' = apply_pressure_force(pos, vel, dens, cfg, dt)
    /\ UNCHANGED <<pos, dens, estimated>>

UpdateDensity ==
    /\ Ran("update_density")
    /\ dens' = update_density(pos, cfg)
    /\ estimated' = TRUE
    /\ UNCHANGED <<pos, vel>>

UpdatePosition ==
    /\ Ran("update_position")
    /\ pos' = update_position(pos, vel, dt)
    /\ UNCHANGED <<vel, dens, estimated>>

ResolveCollision ==
    /\ Ran("resolve_collision")
    /\ LET r == resolve_collision(pos, vel, cfg)
       IN  /\ pos' = r.pos
           /\ vel' = r.vel
    /\ UNCHANGED <<dens, estimated>>

(***************************************************************************)
(* The resource inspector: between two frames a field of SimConfig may be  *)
(* set.  Only collision_damping is range-limited (0..1); bounds_size,      *)
(* smoothing_radius and target_density take any value, of which the model  *)
(* draws the ones below (smoothing_radius stays positive, bounds_size may  *)
(* be smaller than a particle).  pressure_multiplier keeps its default;    *)
(* particles_num only sizes Vec capacities after Startup.                  *)
(***************************************************************************)
DampingValues == {70, 100}
RadiusValues == {100, 130}
BoundsValues == {Vec2(1536, 864), Vec2(10, 10)}
TargetValues == {5000, 27500}

InspectorEdits(c) ==
    {[c EXCEPT !.collision_damping = v] : v \in DampingValues}
    \cup {[c EXCEPT !.smoothing_radius = v] : v \in RadiusValues}
    \cup {[c EXCEPT !.bounds_size = v] : v \in BoundsValues}
    \cup {[c EXCEPT !.target_density = v] : v \in TargetValues}

Inspector ==
    /\ ran = Systems
    /\ edits < MaxEdits
    /\ edits' = edits + 1
    /\ cfg' \in InspectorEdits(cfg) \ {cfg}
    /\ last' = "inspector"
    /\ pre' = Snapshot
    /\ UNCHANGED <<pos, vel, dens, dt, ran, frame, start, estimated>>

Next ==
    \/ BeginFrame
    \/ Inspector
    \/ ApplyPressureForce
    \/ UpdateDensity
    \/ UpdatePosition
    \/ ResolveCollision

Spec == Init /\ [][Next]_vars

(***************************************************************************)
(* One whole frame as a function: the systems run in the given order from  *)
(* state s (a record of pos, vel, dens).                                   *)
(***************************************************************************)
RunSystem(system, s, sim_config, delta) ==
    CASE system = "apply_pressure_force" ->
            [s EXCEPT !.vel = apply_pressure_force(s.pos, s.vel, s.dens, sim_config, delta)]
      [] system = "update_density" ->
            [s EXCEPT !.dens = update_density(s.pos, sim_config)]
      [] system = "update_position" ->
            [s EXCEPT !.pos = update_position(s.pos, s.vel, delta)]
      [] system = "resolve_collision" ->
            LET r == resolve_collision(s.pos, s.vel, sim_config)
            IN  [s EXCEPT !.pos = r.pos, !.vel = r.vel]

RECURSIVE RunFrame(_, _, _, _)
RunFrame(order, s, sim_config, delta) ==
    IF order = <<>>
    THEN s
    ELSE RunFrame(Tail(order), RunSystem(Head(order), s, sim_config, delta), sim_config, delta)

\* every order in which the scheduler may run the four systems
Orders == {o \in [1 .. 4 -> Systems] : \A a, b \in 1 .. 4 : a # b => o[a] # o[b]}

(***************************************************************************)
(* Properties of the running program (specification Spec).                 *)
(***************************************************************************)
Half == HalfBoundsSize(cfg)

Within(coord, half) == Abs(coord) <= half

\* C1 as stated: after every execution of resolve_collision every particle
\* lies within the half extents bounds_size/2 - PARTICLE_SIZE on both axes,
\* whatever bounds_size is configured.
ContainedAfterBoundaryPass ==
    last = "resolve_collision" =>
        \A i \in DOMAIN pos : Within(pos[i].x, Half.x) /\ Within(pos[i].y, Half.y)

\* C1 as amended: after every execution of resolve_collision every particle
\* lies within the half extent on each axis whose half extent is not
\* negative (bounds_size/2 >= PARTICLE_SIZE on that axis).
ContainedAfterBoundaryPassInDomain ==
    last = "resolve_collision" =>
        \A i \in DOMAIN pos :
            /\ Half.x >= 0 => Within(pos[i].x, Half.x)
            /\ Half.y >= 0 => Within(pos[i].y, Half.y)

\* C1's case: the boundary pass has just pulled a particle that was outside
\* a non-negative half extent back onto it.
ContainedWitness ==
    /\ last = "resolve_collision"
    /\ Half.x >= 0
    /\ \E i \in DOMAIN pos : Abs(pre.pos[i].x) > Half.x /\ Abs(pos[i].x) = Half.x

\* C2: within a frame the systems run in the strict sequence update_density,
\* apply_pressure_force, update_position, resolve_collision.
StrictPassSequence ==
    ran \in {{},
             {"update_density"},
             {"update_density", "apply_pressure_force"},
             {"update_density", "apply_pressure_force", "update_position"},
             Systems}

DensityFromFrameStartPositions ==
    last = "update_density" => dens = update_density(start.pos, cfg)

\* C5: the density given at setup is never read: whenever the pressure pass
\* has run, update_density had already overwritten the densities it read.
SetupDensityNeverRead ==
    last = "apply_pressure_force" => estimated

\* C8: a frame is deterministic whatever order the scheduler picks: the
\* outcome of the frame that has just run equals the outcome every order of
\* the four systems gives from the same start, config and dt.
FrameDeterministic ==
    (ran = Systems /\ last \in Systems) =>
        \A o \in Orders : Snapshot = RunFrame(o, start, cfg, dt)

\* C10: every particle spawn_random_scene creates has zero velocity and lies
\* within the half extents bounds_size/2 - PARTICLE_SIZE.
SpawnedWithinHalfExtents ==
    last = "spawn_random_scene" =>
        \A i \in DOMAIN pos :
            /\ vel[i] = VecZero
            /\ Within(pos[i].x, Half.x)
            /\ Within(pos[i].y, Half.y)

(***************************************************************************)
(* resolve_collision on its own (specification SpecCollision): positions,  *)
(* velocities, bounds_size and collision_damping are drawn from the sets   *)
(* below and the pass runs once.                                           *)
(***************************************************************************)
CollisionCounts == {1, 2}
CollisionBounds == {Vec2(1536, 864), Vec2(400, 300), Vec2(10, 10)}
CollisionDampings == {0, 70, 100}
CollisionVelocities == {Vec2(a, b) : a \in {-30, 0, 55}, b \in {-30, 55}}

\* coordinates beyond, on and inside the walls at -half and half
CollisionXs(half) == {half + 1, half + 3, -half - 2, half, 0}
CollisionYs(half) == {half + 1, -half - 2, 0}

InitCollision ==
    \E n \in CollisionCounts, b \in CollisionBounds, d \in CollisionDampings :
        /\ cfg = [DefaultConfig(n) EXCEPT !.bounds_size = b, !.collision_damping = d]
        /\ pos \in [1 .. n -> {Vec2(x, y) : x \in CollisionXs(HalfBoundsSize(cfg).x),
                                            y \in CollisionYs(HalfBoundsSize(cfg).y)}]
        /\ vel \in [1 .. n -> CollisionVelocities]
        /\ dens = [i \in 1 .. n |-> SEED_DENSITY]
        /\ pre = Snapshot
        /\ start = Snapshot
        /\ dt = 16
        /\ ran = {}
        /\ last = "begin_frame"
        /\ frame = 1
        /\ edits = 0
        /\ estimated = FALSE

SpecCollision == InitCollision /\ [][ResolveCollision]_vars

\* -v * collision_damping
Reflected(v, damping) == FDiv((-v) * damping, Centi)

\* what the reflection law says of one axis: beyond the wall at half the
\* particle is put on it with velocity -v * collision_damping; within
\* -half..half position and velocity stay as they were
ReflectsAxis(before, v, after, w, half, damping) ==
    /\ before > half => (after = half /\ w = Reflected(v, damping))
    /\ Within(before, half) => (after = before /\ w = v)

\* C7 as stated: the reflection law holds on the x axis and on the y axis of
\* every particle, for every distance beyond the wall.
ReflectionLaw ==
    last = "resolve_collision" =>
        \A i \in DOMAIN pos :
            /\ ReflectsAxis(pre.pos[i].x, pre.vel[i].x, pos[i].x, vel[i].x,
                            Half.x, cfg.collision_damping)
            /\ ReflectsAxis(pre.pos[i].y, pre.vel[i].y, pos[i].y, vel[i].y,
                            Half.y, cfg.collision_damping)

\* the law restricted to a half extent that is not negative
ReflectsAxisNonNegative(before, v, after, w, half, damping) ==
    /\ (before > half /\ half >= 0) => (after = half /\ w = Reflected(v, damping))
    /\ Within(before, half) => (after = before /\ w = v)

\* C7 as amended: the reflection law holds on each axis whose half extent
\* bounds_size/2 - PARTICLE_SIZE is not negative, for every distance beyond
\* the wall.
ReflectionLawNonNegative ==
    last = "resolve_collision" =>
        \A i \in DOMAIN pos :
            /\ ReflectsAxisNonNegative(pre.pos[i].x, pre.vel[i].x, pos[i].x, vel[i].x,
                                       Half.x, cfg.collision_damping)
            /\ ReflectsAxisNonNegative(pre.pos[i].y, pre.vel[i].y, pos[i].y, vel[i].y,
                                       Half.y, cfg.collision_damping)

\* C7's case: a particle beyond the x wall with a non-zero x velocity has
\* been reflected and damped while its y axis, within the walls, was left
\* alone.
ReflectionWitness ==
    /\ last = "resolve_collision"
    /\ cfg.collision_damping = 70
    /\ \E i \in DOMAIN pos :
          /\ pre.pos[i].x = Half.x + 3
          /\ pre.vel[i].x = 55
          /\ pos[i].x = Half.x
          /\ vel[i].x = -38
          /\ Within(pre.pos[i].y, Half.y)
          /\ vel[i].y = pre.vel[i].y

(***************************************************************************)
(* apply_pressure_force on its own (specification SpecPressure):           *)
(* positions, non-zero densities, velocities, smoothing_radius,            *)
(* target_density and dt are drawn from the sets below and the pass runs   *)
(* once.                                                                   *)
(***************************************************************************)
PressurePoints == {Vec2(0, 0), Vec2(60, 25), Vec2(0, -40), Vec2(200, 0)}
PressureDensities == {3428, 10000, 40000}
PressureVelocities == {VecZero, Vec2(5, -3)}

InitPressure ==
    \E n \in 1 .. NumParticles, r \in RadiusValues, t \in TargetValues :
        /\ cfg = [DefaultConfig(n) EXCEPT !.smoothing_radius = r, !.target_density = t]
        /\ pos \in [1 .. n -> PressurePoints]
        /\ dens \in [1 .. n -> PressureDensities]
        /\ \E v \in PressureVelocities : vel = [i \in 1 .. n |-> v]
        /\ pre = Snapshot
        /\ start = Snapshot
        /\ dt \in DtValues
        /\ ran = {}
        /\ last = "begin_frame"
        /\ frame = 1
        /\ edits = 0
        /\ estimated = FALSE

SpecPressure == InitPressure /\ [][ApplyPressureForce]_vars

Dot(a, b) == a.x * b.x + a.y * b.y

\* how far the velocity change of particle i points toward particle j
TowardOther(i, j) == Dot(VecSub(vel[i], pre.vel[i]), VecSub(pos[j], pos[i]))

\* C6: two particles closer than smoothing_radius (and further than 0.0001)
\* are not accelerated toward each other when both densities are above
\* target_density, and not away from each other when both are below it.
PressureRepelsAboveTarget ==
    (last = "apply_pressure_force" /\ Len(pos) = 2) =>
        LET dst == Length(VecSub(pos[2], pos[1]))
        IN  (dst * Centi > DIR_EPSILON /\ dst < cfg.smoothing_radius) =>
                /\ (\A i \in 1 .. 2 : dens[i] > cfg.target_density) =>
                        (TowardOther(1, 2) <= 0 /\ TowardOther(2, 1) <= 0)
                /\ (\A i \in 1 .. 2 : dens[i] < cfg.target_density) =>
                        (TowardOther(1, 2) >= 0 /\ TowardOther(2, 1) >= 0)

\* calculate_pressure_force with every neighbour at distance 0 left out
RECURSIVE ForceWithoutZeroDistance(_, _, _, _, _)
ForceWithoutZeroDistance(sample_point, positions, densities, sim_config, i) ==
    IF i = 0
    THEN VecZero
    ELSE VecAdd(ForceWithoutZeroDistance(sample_point, positions, densities, sim_config, i - 1),
                IF Length(VecSub(positions[i], sample_point)) = 0
                THEN VecZero
                ELSE PressureTerm(sample_point, positions[i], densities[i], sim_config))

\* C9: a neighbour at distance 0 contributes no force, so the force with such
\* neighbours (the particle itself among them) included equals the force
\* with them left out, and the pressure pass leaves a lone particle's
\* velocity as it was.
ZeroDistanceContributesNothing ==
    /\ \A i, j \in DOMAIN pos :
          pos[i] = pos[j] => PressureTerm(pos[i], pos[j], dens[j], cfg) = VecZero
    /\ \A i \in DOMAIN pos :
          calculate_pressure_force(pos[i], pos, dens, cfg)
            = ForceWithoutZeroDistance(pos[i], pos, dens, cfg, Len(pos))
    /\ (last = "apply_pressure_force" /\ Len(pos) = 1) => vel = pre.vel

\* C9's case: the pressure pass has run, over a non-zero dt, on two
\* colocated particles whose pressure is not zero.
ZeroDistanceWitness ==
    /\ last = "apply_pressure_force"
    /\ dt > 0
    /\ Len(pos) = 2
    /\ pos[1] = pos[2]
    /\ \A i \in DOMAIN dens : dens[i] # cfg.target_density
    /\ vel = pre.vel

====
